---- MODULE Spec2Model ----
(***************************************************************************)
(* A model of bot_helper.py: the Field/Phone/Birthday validated scalars,   *)
(* Record, AddressBook (with get_birthdays_per_week) and the Bot command   *)
(* loop.                                                                   *)
(*                                                                         *)
(* Python strings are sequences of one-character strings, so that len,     *)
(* isdigit, strip, lower and strptime are computed rather than assumed.    *)
(* None is the empty sequence and an optional value v is <<v>>.            *)
(* A raising call is a result record whose field "raised" names the        *)
(* exception.                                                              *)
(***************************************************************************)
EXTENDS Integers, Sequences, FiniteSets, TLC

VARIABLES
    record,   \* a Record object used on its own (Record API)
    data,     \* AddressBook.data: the dict, as its (key, record) entries in insertion order
    call,     \* the last call made / command read: [op, args]; the date that
              \* datetime.today() gave during the call is among its args
    pre,      \* history: the receiver (phone list, or dict) as it was when `call` was entered
    ret,      \* the value the last call returned (None = <<>>)
    raised,   \* the exception the last call let escape, or "none"
    state,    \* the command loop: "Running" or "Terminated"
    out,      \* the lines the last command printed
    lastSet   \* history: per name, the phone given by the latest add/change that succeeded

vars == <<record, data, call, pre, ret, raised, state, out, lastSet>>

----------------------------------------------------------------------------
(* Bounds of the model *)

\* the longest phone list a Record is grown to
MaxPhones == 3
\* how many consecutive values of today are tried (7 covers every weekday)
NumTodays == 7

----------------------------------------------------------------------------
(* Python values *)

None == <<>>
Some(v) == <<v>>

DigitChars == {"0", "1", "2", "3", "4", "5", "6", "7", "8", "9"}

DigitVal(c) ==
    CASE c = "0" -> 0 [] c = "1" -> 1 [] c = "2" -> 2 [] c = "3" -> 3
      [] c = "4" -> 4 [] c = "5" -> 5 [] c = "6" -> 6 [] c = "7" -> 7
      [] c = "8" -> 8 [] c = "9" -> 9

\* str.isdigit(): every character is a digit and there is at least one
IsDigit(s) == Len(s) > 0 /\ \A i \in 1..Len(s) : s[i] \in DigitChars

RECURSIVE IntOf(_)
\* int() of a digit string
IntOf(s) ==
    IF Len(s) = 0 THEN 0
    ELSE 10 * IntOf(SubSeq(s, 1, Len(s) - 1)) + DigitVal(s[Len(s)])

WhiteSpace == {" "}

RECURSIVE LStrip(_)
LStrip(s) == IF Len(s) > 0 /\ s[1] \in WhiteSpace THEN LStrip(Tail(s)) ELSE s

RECURSIVE RStrip(_)
RStrip(s) ==
    IF Len(s) > 0 /\ s[Len(s)] \in WhiteSpace
    THEN RStrip(SubSeq(s, 1, Len(s) - 1)) ELSE s

\* str.strip()
Strip(s) == RStrip(LStrip(s))

LowerChar(c) ==
    CASE c = "A" -> "a" [] c = "B" -> "b" [] c = "C" -> "c" [] c = "D" -> "d"
      [] c = "E" -> "e" [] c = "H" -> "h" [] c = "I" -> "i" [] c = "L" -> "l"
      [] c = "N" -> "n" [] c = "O" -> "o" [] c = "P" -> "p" [] c = "S" -> "s"
      [] c = "T" -> "t" [] c = "X" -> "x" [] OTHER -> c

\* str.lower()
Lower(s) == [i \in 1..Len(s) |-> LowerChar(s[i])]

----------------------------------------------------------------------------
(* Phone *)

PhoneLen == 10

\* Phone.__init__: the condition under which it raises ValueError
PhoneRaises(value) == Len(value) # PhoneLen \/ ~IsDigit(value)

Phone(value) ==
    IF PhoneRaises(value) THEN [raised |-> "ValueError", obj |-> None]
    ELSE [raised |-> "none", obj |-> Some(value)]

----------------------------------------------------------------------------
(* Dates: datetime.strptime(value, "%d.%m.%Y").date(), date arithmetic *)

RECURSIVE Split(_, _)
\* str.split(sep) for a one-character separator
Split(s, sep) ==
    IF \E i \in 1..Len(s) : s[i] = sep
    THEN LET i == CHOOSE k \in 1..Len(s) :
                      s[k] = sep /\ \A j \in 1..(k - 1) : s[j] # sep
         IN <<SubSeq(s, 1, i - 1)>> \o Split(SubSeq(s, i + 1, Len(s)), sep)
    ELSE <<s>>

IsLeap(y) == y % 4 = 0 /\ (y % 100 # 0 \/ y % 400 = 0)

DaysInMonth(y, m) ==
    IF m = 2 THEN (IF IsLeap(y) THEN 29 ELSE 28)
    ELSE IF m \in {4, 6, 9, 11} THEN 30 ELSE 31

RECURSIVE DaysBeforeMonth(_, _)
DaysBeforeMonth(y, m) ==
    IF m = 1 THEN 0 ELSE DaysBeforeMonth(y, m - 1) + DaysInMonth(y, m - 1)

\* date.toordinal(): 0001-01-01 is day 1
Ordinal(y, m, d) ==
    LET p == y - 1
    IN p * 365 + (p \div 4) - (p \div 100) + (p \div 400) + DaysBeforeMonth(y, m) + d

\* date.weekday() of the date with this ordinal: Monday is 0
Weekday(ord) == (ord + 6) % 7

\* the digits of a %d field, which may also be a space and one digit
DayDigits(f) == IF Len(f) = 2 /\ f[1] = " " THEN Tail(f) ELSE f

\* strptime with "%d.%m.%Y": one or two digits, one or two digits, four digits,
\* nothing else, and a date of the calendar; None when it raises ValueError,
\* else the date (as its ordinal)
ParseDate(value) ==
    LET f == Split(value, ".") IN
    IF Len(f) # 3 THEN None
    ELSE IF ~(IsDigit(DayDigits(f[1])) /\ IsDigit(f[2]) /\ IsDigit(f[3])) THEN None
    ELSE IF ~(Len(f[1]) \in {1, 2} /\ Len(f[2]) \in {1, 2} /\ Len(f[3]) = 4) THEN None
    ELSE LET d == IntOf(DayDigits(f[1]))
             m == IntOf(f[2])
             y == IntOf(f[3])
         IN IF y < 1 \/ m < 1 \/ m > 12 \/ d < 1 THEN None
            ELSE IF d > DaysInMonth(y, m) THEN None
            ELSE Some(Ordinal(y, m, d))

\* strftime("%A") of the date with this ordinal
DayName(ord) ==
    <<"Monday", "Tuesday", "Wednesday", "Thursday", "Friday", "Saturday", "Sunday">>
        [Weekday(ord) + 1]

\* Birthday.__init__: the condition under which it raises ValueError
BirthdayRaises(value) == ParseDate(value) = None

Birthday(value) ==
    IF BirthdayRaises(value) THEN [raised |-> "ValueError", obj |-> None]
    ELSE [raised |-> "none", obj |-> Some(value)]

----------------------------------------------------------------------------
(* Record *)

\* Record.__init__
NewRecord(name) == [name |-> name, phones |-> <<>>, birthday |-> None]

\* Record.add_phone: Phone(phone) is built first, so a raise leaves the list alone
add_phone(rec, phone) ==
    LET p == Phone(phone) IN
    IF p.raised # "none" THEN [raised |-> p.raised, rec |-> rec]
    ELSE [raised |-> "none", rec |-> [rec EXCEPT !.phones = Append(@, p.obj[1])]]

\* Record.delete_phone
delete_phone(rec, phone) ==
    [rec EXCEPT !.phones = SelectSeq(@, LAMBDA p : p # phone)]

\* the loop with a break after the first match
EditLoopBreak(phones, i, old_phone, new_phone) ==
    IF \E k \in i..Len(phones) : phones[k] = old_phone
    THEN LET k == CHOOSE k \in i..Len(phones) :
                      phones[k] = old_phone /\ \A j \in i..(k - 1) : phones[j] # old_phone
         IN [phones EXCEPT ![k] = new_phone]
    ELSE phones

RECURSIVE EditLoop(_, _, _, _)
\* the for loop of Record.edit_phone from position i on: it has no break, and
\* the assignment p.value = new_phone builds no Phone
EditLoop(phones, i, old_phone, new_phone) ==
    IF i > Len(phones) THEN phones
    ELSE IF phones[i] = old_phone
         THEN EditLoop([phones EXCEPT ![i] = new_phone], i + 1, old_phone, new_phone)
         ELSE EditLoop(phones, i + 1, old_phone, new_phone)

\* an edit_phone whose comparison never matches (p == old_phone on the Phone
\* object instead of str(p)), so that it changes nothing
edit_phone_no_match(rec, old_phone, new_phone) == rec

\* an edit_phone that adds the new phone and keeps the old one
edit_phone_adds(rec, old_phone, new_phone) ==
    [rec EXCEPT !.phones = Append(@, new_phone)]

\* Record.edit_phone
edit_phone(rec, old_phone, new_phone) ==
    [rec EXCEPT !.phones = EditLoop(@, 1, old_phone, new_phone)]

\* Record.add_birthday: Birthday(birthday) is built before the assignment
add_birthday(rec, birthday) ==
    LET b == Birthday(birthday) IN
    IF b.raised # "none" THEN [raised |-> b.raised, rec |-> rec]
    ELSE [raised |-> "none", rec |-> [rec EXCEPT !.birthday = b.obj]]

----------------------------------------------------------------------------
(* AddressBook *)

Keys(d) == {d[i].key : i \in 1..Len(d)}

IndexOf(d, name) == CHOOSE i \in 1..Len(d) : d[i].key = name

\* a list-like add_record, which appends whether or not the key is held
add_record_append(d, rec) == Append(d, [key |-> rec.name, rec |-> rec])

\* AddressBook.add_record: self.data[record.name.value] = record; a dict keeps
\* the place of a key it already holds
add_record(d, rec) ==
    IF rec.name \in Keys(d)
    THEN [d EXCEPT ![IndexOf(d, rec.name)] = [key |-> rec.name, rec |-> rec]]
    ELSE Append(d, [key |-> rec.name, rec |-> rec])

\* AddressBook.delete_record
delete_record(d, name) ==
    IF name \in Keys(d) THEN SelectSeq(d, LAMBDA e : e.key # name) ELSE d

\* AddressBook.find: self.data.get(name)
find(d, name) ==
    IF name \in Keys(d) THEN Some(d[IndexOf(d, name)].rec) ELSE None

\* the window test with its upper end included
InWindowInclusive(delta_days) == 0 <= delta_days /\ delta_days <= 7

\* the weekend test that misses Saturday
IsWeekendSundayOnly(wd) == wd > 5

\* the 7-day window test on delta_days
InWindow(delta_days) == 0 <= delta_days /\ delta_days < 7

\* birthday_date.weekday() >= 5
IsWeekend(wd) == wd >= 5

\* birthdays_per_week[day].append(name) on a defaultdict(list), kept as its
\* (day, users) entries in insertion order
BucketAppend(b, day, name) ==
    IF \E i \in 1..Len(b) : b[i].day = day
    THEN LET i == CHOOSE k \in 1..Len(b) : b[k].day = day
         IN [b EXCEPT ![i].users = Append(@, name)]
    ELSE Append(b, [day |-> day, users |-> <<name>>])

\* the weekday name one record is filed under: the name of the day delta_days
\* after the Monday of today's week, or "Monday" for a weekend birthday
BirthdayWeekday(t, birthday_date) ==
    LET monday == t - Weekday(t)
        delta_days == birthday_date - t
    IN IF IsWeekend(Weekday(birthday_date)) THEN "Monday"
       ELSE DayName(monday + delta_days)

RECURSIVE BirthdaysLoop(_, _, _, _)
\* the loop of get_birthdays_per_week over self.data.values() from entry i on
BirthdaysLoop(d, i, t, b) ==
    IF i > Len(d) THEN b
    ELSE LET rec == d[i].rec
             name == rec.name
             birthday == IF rec.birthday # None THEN rec.birthday[1] ELSE <<>>
             parsed == ParseDate(birthday)
         IN IF Len(birthday) > 0 /\ parsed # None /\ InWindow(parsed[1] - t)
            THEN BirthdaysLoop(d, i + 1, t,
                               BucketAppend(b, BirthdayWeekday(t, parsed[1]), name))
            ELSE BirthdaysLoop(d, i + 1, t, b)

\* AddressBook.get_birthdays_per_week with today = t
get_birthdays_per_week(d, t) == BirthdaysLoop(d, 1, t, <<>>)

----------------------------------------------------------------------------
(* Inputs *)

NameAl == <<"A", "l">>
NameBo == <<"B", "o">>
Names == {NameAl, NameBo}

PhoneA == <<"0", "1", "2", "3", "4", "5", "6", "7", "8", "9">>
PhoneB == <<"9", "8", "7", "6", "5", "4", "3", "2", "1", "0">>
\* too short, and ten characters that are not all digits
PhoneShort == <<"1", "2", "3", "4", "5">>
PhoneAlpha == <<"0", "1", "2", "3", "4", "5", "6", "7", "8", "x">>
PhoneInputs == {PhoneA, PhoneB, PhoneShort, PhoneAlpha}

\* 2026-11-26 is a Thursday; the values of today start there
BDayThu == <<"2", "6", ".", "1", "1", ".", "2", "0", "2", "6">>
BDaySat == <<"2", "8", ".", "1", "1", ".", "2", "0", "2", "6">>
BDaySun == <<"2", "9", ".", "1", "1", ".", "2", "0", "2", "6">>
BDayTue == <<"0", "1", ".", "1", "2", ".", "2", "0", "2", "6">>
\* an unpadded day, which strptime accepts
BDayWed == <<"2", ".", "1", "2", ".", "2", "0", "2", "6">>
BDayNextSat == <<"0", "5", ".", "1", "2", ".", "2", "0", "2", "6">>
\* the same day and month in another year
BDayLastYear == <<"3", "0", ".", "1", "1", ".", "2", "0", "2", "5">>
\* no such date, and the wrong separators
BDayFeb31 == <<"3", "1", ".", "0", "2", ".", "2", "0", "2", "4">>
BDayDashes == <<"2", "0", "2", "6", "-", "1", "1", "-", "3", "0">>
BirthdayInputs ==
    {BDayThu, BDaySat, BDaySun, BDayTue, BDayWed, BDayNextSat, BDayLastYear,
     BDayFeb31, BDayDashes}

FirstToday == Ordinal(2026, 11, 26)
Todays == {FirstToday + i : i \in 0..(NumTodays - 1)}

Call(op, args) == [op |-> op, args |-> args]

----------------------------------------------------------------------------
(* The Record API: add_phone, delete_phone and edit_phone on one Record *)

InitRecord ==
    /\ record = NewRecord(NameAl)
    /\ data = <<>>
    /\ call = Call("init", <<>>)
    /\ pre = <<>>
    /\ ret = None
    /\ raised = "none"
    /\ state = "Running"
    /\ out = <<>>
    /\ lastSet = [n \in Names |-> None]

RecAddPhone ==
    \E phone \in PhoneInputs :
        /\ Len(record.phones) < MaxPhones
        /\ LET r == add_phone(record, phone)
           IN /\ record' = r.rec
              /\ raised' = r.raised
        /\ call' = Call("add_phone", <<phone>>)
        /\ pre' = record.phones
        /\ UNCHANGED <<data, ret, state, out, lastSet>>

RecDeletePhone ==
    \E phone \in PhoneInputs :
        /\ record' = delete_phone(record, phone)
        /\ raised' = "none"
        /\ call' = Call("delete_phone", <<phone>>)
        /\ pre' = record.phones
        /\ UNCHANGED <<data, ret, state, out, lastSet>>

RecEditPhone ==
    \E old_phone \in PhoneInputs, new_phone \in PhoneInputs :
        /\ record' = edit_phone(record, old_phone, new_phone)
        /\ raised' = "none"
        /\ call' = Call("edit_phone", <<old_phone, new_phone>>)
        /\ pre' = record.phones
        /\ UNCHANGED <<data, ret, state, out, lastSet>>

NextRecord == RecAddPhone \/ RecDeletePhone \/ RecEditPhone

SpecRecord == InitRecord /\ [][NextRecord]_vars

----------------------------------------------------------------------------
(* The AddressBook API: add_record, delete_record, find and                *)
(* get_birthdays_per_week on one AddressBook                               *)

\* the birthdays Record.add_birthday stores
StoredBirthdays == {b \in BirthdayInputs : Birthday(b).raised = "none"}

\* Records as Record.__init__, add_phone and add_birthday build them
RecordInputs ==
    [name : Names,
     phones : {<<>>, <<PhoneB, PhoneA>>},
     birthday : {None} \cup {Some(b) : b \in StoredBirthdays}]

InitBook ==
    /\ record = NewRecord(NameAl)
    /\ data = <<>>
    /\ call = Call("init", <<>>)
    /\ pre = <<>>
    /\ ret = None
    /\ raised = "none"
    /\ state = "Running"
    /\ out = <<>>
    /\ lastSet = [n \in Names |-> None]

BookAddRecord ==
    \E rec \in RecordInputs :
        /\ data' = add_record(data, rec)
        /\ call' = Call("add_record", <<rec>>)
        /\ pre' = data
        /\ ret' = None
        /\ UNCHANGED <<record, raised, state, out, lastSet>>

BookDeleteRecord ==
    \E name \in Names :
        /\ data' = delete_record(data, name)
        /\ call' = Call("delete_record", <<name>>)
        /\ pre' = data
        /\ ret' = None
        /\ UNCHANGED <<record, raised, state, out, lastSet>>

BookFind ==
    \E name \in Names :
        /\ ret' = find(data, name)
        /\ call' = Call("find", <<name>>)
        /\ pre' = data
        /\ UNCHANGED <<record, data, raised, state, out, lastSet>>

BookGetBirthdays ==
    \E t \in Todays :
        /\ ret' = get_birthdays_per_week(data, t)
        /\ call' = Call("get_birthdays_per_week", <<t>>)
        /\ pre' = data
        /\ UNCHANGED <<record, data, raised, state, out, lastSet>>

NextBook == BookAddRecord \/ BookDeleteRecord \/ BookFind \/ BookGetBirthdays

SpecBook == InitBook /\ [][NextBook]_vars

----------------------------------------------------------------------------
(* Bot: the handlers and the command loop of Bot.run                       *)

Line(text, args) == [text |-> text, args |-> args]

Handled(d, lines, exc) == [data |-> d, out |-> lines, raised |-> exc]

\* the record held under name, replaced by what a call on it left of it
\* (find returns the object the dict holds; the handlers change it in place)
SetRecord(d, name, rec) == [d EXCEPT ![IndexOf(d, name)].rec = rec]

\* an add_contact that files the new Record before it gives it the phone
add_contact_files_first(d, name, phone) ==
    LET r == add_phone(NewRecord(name), phone) IN
    IF r.raised # "none" THEN Handled(add_record(d, NewRecord(name)), <<>>, r.raised)
    ELSE Handled(add_record(d, r.rec),
                 <<Line("Contact added successfully.", <<>>)>>, "none")

\* Bot.add_contact
add_contact(d, name, phone) ==
    LET r == add_phone(NewRecord(name), phone) IN
    IF r.raised # "none" THEN Handled(d, <<>>, r.raised)
    ELSE Handled(add_record(d, r.rec),
                 <<Line("Contact added successfully.", <<>>)>>, "none")

\* Bot.change_phone
change_phone(d, name, new_phone) ==
    LET found == find(d, name) IN
    IF found # None
    THEN IF Len(found[1].phones) = 0 THEN Handled(d, <<>>, "IndexError")
         ELSE Handled(SetRecord(d, name,
                                edit_phone(found[1], found[1].phones[1], new_phone)),
                      <<Line("Phone number changed successfully.", <<>>)>>, "none")
    ELSE Handled(d, <<Line("Contact not found.", <<>>)>>, "none")

\* Bot.show_phone
show_phone(d, name) ==
    LET found == find(d, name) IN
    IF found # None
    THEN IF Len(found[1].phones) = 0 THEN Handled(d, <<>>, "IndexError")
         ELSE Handled(d, <<Line("Phone number for {name}: {phones[0]}",
                                <<name, found[1].phones[1]>>)>>, "none")
    ELSE Handled(d, <<Line("Contact not found.", <<>>)>>, "none")

\* Bot.add_birthday
bot_add_birthday(d, name, birthday) ==
    LET found == find(d, name) IN
    IF found # None
    THEN LET r == add_birthday(found[1], birthday) IN
         IF r.raised # "none" THEN Handled(SetRecord(d, name, r.rec), <<>>, r.raised)
         ELSE Handled(SetRecord(d, name, r.rec),
                      <<Line("Birthday added successfully.", <<>>)>>, "none")
    ELSE Handled(d, <<Line("Contact not found.", <<>>)>>, "none")

\* Bot.show_birthday
show_birthday(d, name) ==
    LET found == find(d, name) IN
    IF found # None /\ found[1].birthday # None
    THEN Handled(d, <<Line("Birthday for {name}: {birthday}",
                          <<name, found[1].birthday[1]>>)>>, "none")
    ELSE IF found # None
    THEN Handled(d, <<Line("No birthday specified for {name}.", <<name>>)>>, "none")
    ELSE Handled(d, <<Line("Contact not found.", <<>>)>>, "none")

\* Bot.birthdays_this_week with today = t
birthdays_this_week(d, t) ==
    LET b == get_birthdays_per_week(d, t) IN
    IF Len(b) > 0
    THEN Handled(d, <<Line("Birthdays for the next week:", <<>>)>>
                      \o [i \in 1..Len(b) |-> Line(b[i].day, b[i].users)], "none")
    ELSE Handled(d, <<Line("No birthdays for the next week.", <<>>)>>, "none")

\* Record.__str__
RecordStr(rec) ==
    IF rec.birthday # None
    THEN Line("Contact name: {name}, phones: {phones}, birthday: {birthday}",
              <<rec.name>> \o rec.phones \o <<rec.birthday[1]>>)
    ELSE Line("Contact name: {name}, phones: {phones}, birthday: Not specified",
              <<rec.name>> \o rec.phones)

\* Bot.list_all_contacts, with AddressBook.__str__
list_all_contacts(d) ==
    Handled(d, <<Line("All contacts in the address book:", <<>>)>>
                 \o [i \in 1..Len(d) |-> RecordStr(d[i].rec)], "none")

\* Bot.hello
hello(d) == Handled(d, <<Line("Hello! I'm your address book bot.", <<>>)>>, "none")

\* the command words
T_add == <<"a", "d", "d">>
T_change == <<"c", "h", "a", "n", "g", "e">>
T_phone == <<"p", "h", "o", "n", "e">>
T_add_birthday == <<"a", "d", "d", "-", "b", "i", "r", "t", "h", "d", "a", "y">>
T_show_birthday == <<"s", "h", "o", "w", "-", "b", "i", "r", "t", "h", "d", "a", "y">>
T_birthdays == <<"b", "i", "r", "t", "h", "d", "a", "y", "s">>
T_all == <<"a", "l", "l">>
T_hello == <<"h", "e", "l", "l", "o">>
T_close == <<"c", "l", "o", "s", "e">>
T_exit == <<"e", "x", "i", "t">>
CommandWords ==
    {T_add, T_change, T_phone, T_add_birthday, T_show_birthday, T_birthdays,
     T_all, T_hello, T_close, T_exit}

\* the lines typed at "Enter command: ": the command words, some of them in
\* capitals or between spaces, a word that is no command, and an empty line
CommandInputs ==
    CommandWords \cup
    {<<" ", "A", "D", "D", " ">>, <<"P", "h", "o", "n", "e">>, <<"E", "X", "I", "T", " ">>,
     <<" ", "C", "h", "a", "n", "g", "e">>, <<"a", "d", "d", " ", "x">>,
     <<"h", "e", "l", "p">>, <<>>}

\* the lines typed at the other prompts
NameLines == {NameAl, <<" ">> \o NameBo \o <<" ">>}
PhoneLines == {PhoneA, <<" ">> \o PhoneB, PhoneShort}
BirthdayLines == {BDayThu, BDaySat \o <<" ">>, BDayFeb31}

\* command = input("Enter command: ").strip().lower()
Command(line) == Lower(Strip(line))

InitBot ==
    /\ record = NewRecord(NameAl)
    /\ data = <<>>
    /\ call = Call("init", <<>>)
    /\ pre = <<>>
    /\ ret = None
    /\ raised = "none"
    /\ state = "Running"
    /\ out = <<>>
    /\ lastSet = [n \in Names |-> None]

\* one pass of the while loop whose handler returned h: an exception that the
\* handler lets escape leaves run(), since run() has no try
Iterate(op, args, h) ==
    /\ call' = Call(op, args)
    /\ pre' = data
    /\ data' = h.data
    /\ out' = h.out
    /\ raised' = h.raised
    /\ state' = IF h.raised # "none" THEN "Terminated" ELSE "Running"
    /\ UNCHANGED <<record, ret>>

RunAdd ==
    \E line \in CommandInputs, nl \in NameLines, pl \in PhoneLines :
        /\ state = "Running"
        /\ Command(line) = T_add
        /\ LET name == Strip(nl)
               phone == Strip(pl)
               h == add_contact(data, name, phone)
           IN /\ Iterate("add", <<name, phone>>, h)
              /\ lastSet' = IF h.raised = "none"
                            THEN [lastSet EXCEPT ![name] = Some(phone)]
                            ELSE lastSet

RunChange ==
    \E line \in CommandInputs, nl \in NameLines, pl \in PhoneLines :
        /\ state = "Running"
        /\ Command(line) = T_change
        /\ LET name == Strip(nl)
               new_phone == Strip(pl)
               h == change_phone(data, name, new_phone)
           IN /\ Iterate("change", <<name, new_phone>>, h)
              /\ lastSet' = IF h.raised = "none" /\ find(data, name) # None
                            THEN [lastSet EXCEPT ![name] = Some(new_phone)]
                            ELSE lastSet

RunPhone ==
    \E line \in CommandInputs, nl \in NameLines :
        /\ state = "Running"
        /\ Command(line) = T_phone
        /\ Iterate("phone", <<Strip(nl)>>, show_phone(data, Strip(nl)))
        /\ UNCHANGED lastSet

RunAddBirthday ==
    \E line \in CommandInputs, nl \in NameLines, bl \in BirthdayLines :
        /\ state = "Running"
        /\ Command(line) = T_add_birthday
        /\ Iterate("add-birthday", <<Strip(nl), Strip(bl)>>,
                   bot_add_birthday(data, Strip(nl), Strip(bl)))
        /\ UNCHANGED lastSet

RunShowBirthday ==
    \E line \in CommandInputs, nl \in NameLines :
        /\ state = "Running"
        /\ Command(line) = T_show_birthday
        /\ Iterate("show-birthday", <<Strip(nl)>>, show_birthday(data, Strip(nl)))
        /\ UNCHANGED lastSet

RunBirthdays ==
    \E line \in CommandInputs, t \in Todays :
        /\ state = "Running"
        /\ Command(line) = T_birthdays
        /\ Iterate("birthdays", <<t>>, birthdays_this_week(data, t))
        /\ UNCHANGED lastSet

RunAll ==
    \E line \in CommandInputs :
        /\ state = "Running"
        /\ Command(line) = T_all
        /\ Iterate("all", <<>>, list_all_contacts(data))
        /\ UNCHANGED lastSet

RunHello ==
    \E line \in CommandInputs :
        /\ state = "Running"
        /\ Command(line) = T_hello
        /\ Iterate("hello", <<>>, hello(data))
        /\ UNCHANGED lastSet

\* close or exit: print and break
RunExit ==
    \E line \in CommandInputs :
        /\ state = "Running"
        /\ Command(line) \in {T_close, T_exit}
        /\ call' = Call(IF Command(line) = T_close THEN "close" ELSE "exit", <<>>)
        /\ pre' = data
        /\ out' = <<Line("Exiting program...", <<>>)>>
        /\ raised' = "none"
        /\ state' = "Terminated"
        /\ UNCHANGED <<record, data, ret, lastSet>>

RunInvalid ==
    \E line \in CommandInputs :
        /\ state = "Running"
        /\ Command(line) \notin CommandWords
        /\ Iterate("invalid", <<Command(line)>>,
                   Handled(data, <<Line("Invalid command. Please try again.", <<>>)>>,
                           "none"))
        /\ UNCHANGED lastSet

\* the input ends: input() raises EOFError at whichever prompt is reading,
\* before any handler is called
RunEof ==
    /\ state = "Running"
    /\ call' = Call("EOF", <<>>)
    /\ pre' = data
    /\ out' = <<>>
    /\ raised' = "EOFError"
    /\ state' = "Terminated"
    /\ UNCHANGED <<record, data, ret, lastSet>>

Next ==
    \/ RunAdd
    \/ RunChange
    \/ RunPhone
    \/ RunAddBirthday
    \/ RunShowBirthday
    \/ RunBirthdays
    \/ RunAll
    \/ RunHello
    \/ RunExit
    \/ RunInvalid
    \/ RunEof

Spec == InitBot /\ [][Next]_vars

----------------------------------------------------------------------------
(* Claims about the Record API *)

TenDigits(s) == Len(s) = 10 /\ \A i \in 1..Len(s) : s[i] \in DigitChars

Count(seq, v) == Cardinality({i \in 1..Len(seq) : seq[i] = v})

\* C1: every stored phone is a string of exactly 10 decimal digits, and
\* edit_phone(old, new) with a new value that fails validation raises as
\* add_phone does and stores nothing.
C1_PhonesValidated ==
    /\ \A i \in 1..Len(record.phones) : TenDigits(record.phones[i])
    /\ (call.op = "edit_phone" /\ ~TenDigits(call.args[2])
                                /\ Count(pre, call.args[1]) > 0)
          => (raised = "ValueError" /\ record.phones = pre)

\* the list with only its first element equal to old replaced by new
EditFirst(phones, old, new) ==
    IF \E i \in 1..Len(phones) : phones[i] = old
    THEN LET i == CHOOSE k \in 1..Len(phones) :
                      phones[k] = old /\ \A j \in 1..(k - 1) : phones[j] # old
         IN [phones EXCEPT ![i] = new]
    ELSE phones

\* C8 as stated: edit_phone(old, new) changes only the first stored phone equal
\* to old; later duplicates of old keep their value; with no match the list is
\* unchanged and nothing is raised.
C8_EditsFirstOnly ==
    call.op = "edit_phone" =>
        /\ record.phones = EditFirst(pre, call.args[1], call.args[2])
        /\ (Count(pre, call.args[1]) = 0 => (record.phones = pre /\ raised = "none"))

\* C8 amended: edit_phone(old, new) gives every stored phone equal to old the
\* value new; every other position keeps its value and its place; with no
\* match the list is unchanged and nothing is raised.
C8_EditsEveryMatch ==
    call.op = "edit_phone" =>
        /\ Len(record.phones) = Len(pre)
        /\ \A i \in 1..Len(pre) :
              record.phones[i] = IF pre[i] = call.args[1] THEN call.args[2] ELSE pre[i]
        /\ (Count(pre, call.args[1]) = 0 => (record.phones = pre /\ raised = "none"))

\* an edit of a list holding old twice and another phone besides
C8_Witness ==
    /\ call.op = "edit_phone"
    /\ call.args[1] # call.args[2]
    /\ Count(pre, call.args[1]) >= 2
    /\ \E i \in 1..Len(pre) : pre[i] # call.args[1]
    /\ Count(record.phones, call.args[2]) >= 2

----------------------------------------------------------------------------
(* Claims about the AddressBook API *)

EntriesOf(d, name) == {i \in 1..Len(d) : d[i].key = name}

\* C2: the book holds at most one Record per name (each under its own name);
\* after add_record(r), the one record found under r.name is r itself, so no
\* phone or birthday of a record it replaced survives, and the records under
\* every other name are as they were.
C2_OneRecordPerName ==
    /\ \A n \in Names : Cardinality(EntriesOf(data, n)) <= 1
    /\ \A i \in 1..Len(data) : data[i].rec.name = data[i].key
    /\ call.op = "add_record" =>
          LET r == call.args[1] IN
          /\ \E i \in 1..Len(data) : data[i].key = r.name /\ data[i].rec = r
          /\ \A i \in 1..Len(data) : data[i].key = r.name => data[i].rec = r
          /\ \A n \in Names \ {r.name} :
                {data[i].rec : i \in EntriesOf(data, n)}
                    = {pre[i].rec : i \in EntriesOf(pre, n)}

\* add_record of a bare record over one that had phones and a birthday, with
\* another name in the book
C2_Witness ==
    /\ call.op = "add_record"
    /\ call.args[1].phones = <<>>
    /\ call.args[1].birthday = None
    /\ \E i \in 1..Len(pre) :
          /\ pre[i].key = call.args[1].name
          /\ pre[i].rec.phones # <<>>
          /\ pre[i].rec.birthday # None
    /\ Len(data) = 2

\* how often a name is listed, over all the buckets of a result
Listed(b, name) ==
    LET RECURSIVE Sum(_)
        Sum(i) == IF i = 0 THEN 0 ELSE Sum(i - 1) + Count(b[i].users, name)
    IN Sum(Len(b))

\* the day buckets of a result that list a name
DaysOf(b, name) == {b[i].day : i \in {k \in 1..Len(b) : Count(b[k].users, name) > 0}}

\* the contacts of the book whose stored date d has 0 <= d - t < 7
Upcoming(d, t) ==
    {i \in 1..Len(d) :
        /\ d[i].rec.birthday # None
        /\ LET bd == ParseDate(d[i].rec.birthday[1])[1]
           IN 0 <= bd - t /\ bd - t < 7}

\* C3: a contact is listed exactly once, in one bucket, when its stored date d
\* has 0 <= d - today < 7, and in no bucket otherwise (a contact with no
\* birthday never is).
C3_ListedIffInWindow ==
    call.op = "get_birthdays_per_week" =>
        \A n \in Names :
            Listed(ret, n) =
                IF \E i \in Upcoming(data, call.args[1]) : data[i].key = n THEN 1 ELSE 0

\* a report that lists one contact and leaves out another whose stored date
\* is 7 days after today
C3_Witness ==
    /\ call.op = "get_birthdays_per_week"
    /\ Len(data) = 2
    /\ \E i \in 1..Len(data) :
          /\ i \in Upcoming(data, call.args[1])
          /\ Listed(ret, data[i].key) = 1
    /\ \E i \in 1..Len(data) :
          /\ data[i].rec.birthday # None
          /\ ParseDate(data[i].rec.birthday[1])[1] - call.args[1] = 7
          /\ Listed(ret, data[i].key) = 0

\* C4: a contact whose stored date is a Monday-to-Friday date in the window is
\* listed under the name of the weekday of the stored date, whatever the
\* weekday of today.
C4_ListedUnderOwnWeekday ==
    call.op = "get_birthdays_per_week" =>
        \A i \in Upcoming(data, call.args[1]) :
            LET bd == ParseDate(data[i].rec.birthday[1])[1]
            IN Weekday(bd) < 5 => DaysOf(ret, data[i].key) = {DayName(bd)}

\* C5: a contact whose stored date is a Saturday or a Sunday in the window is
\* listed under "Monday" and under no other weekday name.
C5_WeekendUnderMonday ==
    call.op = "get_birthdays_per_week" =>
        \A i \in Upcoming(data, call.args[1]) :
            LET bd == ParseDate(data[i].rec.birthday[1])[1]
            IN Weekday(bd) \in {5, 6} => DaysOf(ret, data[i].key) = {"Monday"}

\* a report made on a day that is not a Monday, listing a Saturday birthday
\* and a Sunday birthday under "Monday"
C5_Witness ==
    /\ call.op = "get_birthdays_per_week"
    /\ Weekday(call.args[1]) # 0
    /\ \E i, j \in Upcoming(data, call.args[1]) :
          /\ Weekday(ParseDate(data[i].rec.birthday[1])[1]) = 5
          /\ Weekday(ParseDate(data[j].rec.birthday[1])[1]) = 6
          /\ DaysOf(ret, data[i].key) = {"Monday"}
          /\ DaysOf(ret, data[j].key) = {"Monday"}

----------------------------------------------------------------------------
(* Claims about the command loop *)

\* C6: the loop leaves Running for Terminated only on close, on exit or at the
\* end of the input; every other command returns to Running, and no error
\* raised by a handler escapes the loop.
C6_TerminatedOnlyOnExit ==
    /\ state = "Terminated" => call.op \in {"close", "exit", "EOF"}
    /\ raised \in {"none", "EOFError"}

\* C7: phone n prints "Contact not found." when no add for n has succeeded,
\* and otherwise the phone of the latest add or change for n that succeeded.
C7_PhonePrintsLatest ==
    call.op = "phone" =>
        LET n == call.args[1] IN
        /\ raised = "none"
        /\ out = IF lastSet[n] = None
                 THEN <<Line("Contact not found.", <<>>)>>
                 ELSE <<Line("Phone number for {name}: {phones[0]}", <<n, lastSet[n][1]>>)>>

\* phone for a contact that was added and then changed (only change stores a
\* phone that add refuses), while the other name, never added, is not found
C7_Witness ==
    /\ call.op = "phone"
    /\ lastSet[call.args[1]] = Some(PhoneShort)
    /\ out = <<Line("Phone number for {name}: {phones[0]}", <<call.args[1], PhoneShort>>)>>
    /\ \E n \in Names : lastSet[n] = None /\ n \notin Keys(data)

\* the birthday lines that fail validation: no such date, wrong separators
BadBirthdays == {BDayFeb31, BDayDashes}

\* C9: an add with a phone that fails validation, and an add-birthday with a
\* birthday that fails validation, leave the whole AddressBook as it was: no
\* record is created, none is overwritten, no stored birthday is lost.
C9_FailedCommandKeepsBook ==
    (\/ call.op = "add" /\ ~TenDigits(call.args[2])
     \/ call.op = "add-birthday" /\ call.args[2] \in BadBirthdays)
        => data = pre

\* a failed add for a name the book holds with a phone and a birthday
C9_Witness ==
    /\ call.op = "add"
    /\ ~TenDigits(call.args[2])
    /\ raised = "ValueError"
    /\ \E i \in 1..Len(data) :
          /\ data[i].key = call.args[1]
          /\ data[i].rec.birthday # None
          /\ Len(data[i].rec.phones) = 1

\* C10: every Record the Bot's AddressBook holds has exactly one phone.
C10_OnePhonePerRecord ==
    \A i \in 1..Len(data) : Len(data[i].rec.phones) = 1

\* a change for a contact the book holds, with another contact beside it
C10_Witness ==
    /\ call.op = "change"
    /\ Len(data) = 2
    /\ call.args[1] \in Keys(data)
    /\ raised = "none"
    /\ data # pre

====
